---- MODULE Spec2Model ----
(***************************************************************************)
(* Model of the flight-path animation core of hk-paths: the Timeline      *)
(* (global timeline, start/stop/reset, rate update), the Cesium clock it   *)
(* configures, Viewer.drawFlightPath's placement of samples on the         *)
(* compressed timeline, the Clock display, the FlightDataLoader and        *)
(* waitForGlobe.                                                           *)
(*                                                                         *)
(* JavaScript numbers are modelled as exact rationals extended with NaN    *)
(* and +/-Infinity: [n |-> numerator, d |-> denominator], d > 0 for a      *)
(* finite value in lowest terms, d = 0 for NaN (n = 0), +Infinity (n = 1)  *)
(* and -Infinity (n = -1).  Rounding of IEEE doubles is not modelled.      *)
(* A Date is its millisecond value (NaN for an Invalid Date); a Cesium     *)
(* JulianDate is its value in seconds.                                     *)
(***************************************************************************)
EXTENDS Integers, Sequences, FiniteSets, TLC

\* ------------------------------------------------------------------ bounds
MaxTime == 2
MaxTracks == 2
MaxFlights == 2
MaxNow == 1
MaxSessionFlights == 1
MaxFiles == 3
MaxElapsed == 3

\* ------------------------------------------------- JavaScript numbers
NaN == [n |-> 0, d |-> 0]
PosInf == [n |-> 1, d |-> 0]
NegInf == [n |-> 0 - 1, d |-> 0]
\* JavaScript's null and undefined, kept in the shape of a number so that
\* a field holding "a date or null" has one shape.
Null == [n |-> 0, d |-> 0 - 1]
Undefined == [n |-> 0, d |-> 0 - 2]

Abs(i) == IF i < 0 THEN 0 - i ELSE i
Sign(i) == IF i > 0 THEN 1 ELSE IF i < 0 THEN 0 - 1 ELSE 0

RECURSIVE GCD(_, _)
GCD(a, b) == IF b = 0 THEN a ELSE GCD(b, a % b)

\* n / d over the integers as a JavaScript number: 0/0 is NaN, x/0 is
\* +/-Infinity, otherwise the fraction in lowest terms.
Rat(n, d) ==
    IF d = 0 THEN [n |-> Sign(n), d |-> 0]
    ELSE LET g == GCD(Abs(n), Abs(d))
         IN [n |-> Sign(d) * (n \div g), d |-> Abs(d) \div g]

Num(i) == [n |-> i, d |-> 1]
IsNaN(x) == x = NaN
IsFinite(x) == x.d > 0

Add(x, y) ==
    IF IsNaN(x) \/ IsNaN(y) THEN NaN
    ELSE IF x.d = 0 /\ y.d = 0 THEN (IF x = y THEN x ELSE NaN)
    ELSE IF x.d = 0 THEN x
    ELSE IF y.d = 0 THEN y
    ELSE Rat(x.n * y.d + y.n * x.d, x.d * y.d)

Neg(x) == [n |-> 0 - x.n, d |-> x.d]
Sub(x, y) == Add(x, Neg(y))

Mul(x, y) ==
    IF IsNaN(x) \/ IsNaN(y) THEN NaN
    ELSE IF x.d = 0 \/ y.d = 0 THEN [n |-> Sign(x.n) * Sign(y.n), d |-> 0]
    ELSE Rat(x.n * y.n, x.d * y.d)

Div(x, y) ==
    IF IsNaN(x) \/ IsNaN(y) THEN NaN
    ELSE IF x.d = 0 /\ y.d = 0 THEN NaN
    ELSE IF x.d = 0 THEN [n |-> x.n * (IF y.n < 0 THEN 0 - 1 ELSE 1), d |-> 0]
    ELSE IF y.d = 0 THEN Num(0)
    ELSE Rat(x.n * y.d, x.d * y.n)

\* x < y; every comparison with NaN is false.
Lt(x, y) ==
    /\ ~IsNaN(x)
    /\ ~IsNaN(y)
    /\ IF x.d = 0 \/ y.d = 0
       THEN x # y /\ (x = NegInf \/ y = PosInf)
       ELSE x.n * y.d < y.n * x.d
Gt(x, y) == Lt(y, x)
\* x === y on numbers: NaN equals nothing, itself included.
Eq(x, y) == ~IsNaN(x) /\ ~IsNaN(y) /\ x = y
Le(x, y) == ~IsNaN(x) /\ ~IsNaN(y) /\ ~Lt(y, x)
Ge(x, y) == Le(y, x)

\* Math.max / Math.min: NaN if either argument is NaN.
MathMax(x, y) == IF IsNaN(x) \/ IsNaN(y) THEN NaN ELSE IF Lt(x, y) THEN y ELSE x
MathMin(x, y) == IF IsNaN(x) \/ IsNaN(y) THEN NaN ELSE IF Lt(y, x) THEN y ELSE x

\* ------------------------------------------------------------ inputs
\* A sample's timestamp string: an ISO-8601 instant (here: its millisecond
\* value) or a string Date cannot parse.
BadTimestamp == [iso |-> FALSE, ms |-> 0]
Timestamps == {[iso |-> TRUE, ms |-> k] : k \in 0..MaxTime} \cup {BadTimestamp}

\* new Date(timestamp): the instant in milliseconds, Invalid Date (NaN) for
\* an unparsable string.
NewDate(ts) == IF ts.iso THEN Num(ts.ms) ELSE NaN

\* A track: its timestamp and its position (degrees, altitude in feet).
Lats == {22}
Lons == {114}
FeetValues == {0, 1000}
Samples == [timestamp : Timestamps, lat : Lats, lon : Lons, alt : FeetValues]

\* Trajectories are time-ascending (spec section 3): the parsable
\* timestamps of a track list never decrease.
Ascending(tracks) ==
    \A i, j \in 1..Len(tracks) :
        (i < j /\ tracks[i].timestamp.iso /\ tracks[j].timestamp.iso)
            => tracks[i].timestamp.ms <= tracks[j].timestamp.ms

SeqsUpTo(S, k) == UNION {[1..m -> S] : m \in 0..k}

TrackLists == {t \in SeqsUpTo(Samples, MaxTracks) : Ascending(t)}
\* One loaded flight: flight.data[0].tracks.
Flights == [tracks : TrackLists]
Batches == SeqsUpTo(Flights, MaxFlights)

\* FlightDataLoader.loadData: a file whose flight has no tracks makes the
\* load fail, and the loaded flights are sorted by the Date of their first
\* timestamp.  The comparator yields NaN for an Invalid Date, which leaves
\* the order to the engine: any order is then possible.
Loaded(b) ==
    /\ \A k \in 1..Len(b) : Len(b[k].tracks) > 0
    /\ (\A k \in 1..Len(b) : b[k].tracks[1].timestamp.iso)
           => \A i, j \in 1..Len(b) :
                  i < j => b[i].tracks[1].timestamp.ms
                              <= b[j].tracks[1].timestamp.ms

LoadedBatches == {b \in Batches : Loaded(b)}

\* The flights the callers of the Timeline hold in the sessions below, one
\* of each kind calculateGlobalTimeline tells apart: no tracks, two spans
\* that overlap without being equal, and an unparsable timestamp.
At(k) == [timestamp |-> [iso |-> TRUE, ms |-> k], lat |-> 22, lon |-> 114,
          alt |-> 1000 * k]
SessionFlights ==
    {[tracks |-> <<>>],
     [tracks |-> <<At(0), At(1)>>],
     [tracks |-> <<At(1), At(2)>>],
     [tracks |-> <<[timestamp |-> BadTimestamp, lat |-> 22, lon |-> 114,
                    alt |-> 0]>>]}

\* The batches the free-running Timeline sessions are checked on.
SessionBatches == SeqsUpTo(SessionFlights, MaxSessionFlights)
\* The batches the repeated timeline calculation is checked on.
CalcBatches == SeqsUpTo(SessionFlights, MaxFlights)
\* The batches the loader can hand to the page: in the runs of the page's
\* script, and in the viewer sessions.
ScriptBatches == {b \in CalcBatches : Loaded(b)}
ViewerBatches == {b \in SessionBatches : Loaded(b)}

ScaleFactors == {1, 2}
MinDurations == {1, 2}
Altitudes == {0, 1, 2}
\* (minSpeed, maxSpeed) pairs passed to the rate update.
SpeedRanges == {<<Num(1), Num(2)>>}

\* ------------------------------------------------------------- state
VARIABLES
    flights,         \* the flights held by the caller, in their order
    config,          \* the page's animationScaleFactor and minDuration
    now,             \* wall-clock time in seconds (Cesium.JulianDate.now())
    globalTimeline,  \* Timeline.globalTimeline, NullTimeline for null
    isAnimating,     \* Timeline.isAnimating
    cesiumClock,     \* the Cesium clock the Timeline drives
    entities,        \* the entities drawFlightPath added to the viewer
    viewerBaseAltitude, \* Viewer.baseAltitude, Undefined until it is captured
    cameraAltitude,  \* the camera's height, what getCameraAltitude() returns
    scheduled,       \* the callbacks registered and not cancelled
    loader,          \* the FlightDataLoader and the files its paths resolve to
    globe,           \* the globe, its camera and the waitForGlobe call
    lastCall         \* the last operation called, how it ended, what it returned

vars == <<flights, config, now, globalTimeline, isAnimating, cesiumClock,
          entities, viewerBaseAltitude, cameraAltitude, scheduled, loader, globe,
          lastCall>>

Configs == [animationScaleFactor : ScaleFactors, minDuration : MinDurations]
NullTimeline ==
    [earliestStart |-> Null, latestEnd |-> Null, animationStart |-> Null,
     animationDuration |-> Null, realDurationHours |-> Null]

\* The record of a call: the operation, "ok" or the error it threw, the
\* timeline it returned, for calculateGlobalTimeline whether a flights
\* argument was given and the flights given, for the rate update its
\* arguments, for drawFlightPath the index of the flight (0 otherwise),
\* for the other operations that take arguments or return a value the
\* tuple of the arguments and the value.
NoSpeedArgs ==
    [currentAltitude |-> Null, baseAltitude |-> Null,
     minSpeed |-> Null, maxSpeed |-> Null]
Call(op, result) ==
    [op |-> op, result |-> result, returned |-> NullTimeline,
     given |-> FALSE, flights |-> <<>>, speed |-> NoSpeedArgs, flight |-> 0,
     args |-> <<>>, value |-> Null]
CalcCall(result, returned, given, fl) ==
    [op |-> "calculateGlobalTimeline", result |-> result, returned |-> returned,
     given |-> given, flights |-> fl, speed |-> NoSpeedArgs, flight |-> 0,
     args |-> <<>>, value |-> Null]
DrawCall(f, result) ==
    [op |-> "drawFlightPath", result |-> result, returned |-> NullTimeline,
     given |-> FALSE, flights |-> <<>>, speed |-> NoSpeedArgs, flight |-> f,
     args |-> <<>>, value |-> Null]
SpeedCall(currentAltitude, baseAltitude, minSpeed, maxSpeed) ==
    [op |-> "updateSpeedForConstantPixelRate", result |-> "ok",
     returned |-> NullTimeline, given |-> FALSE, flights |-> <<>>,
     speed |-> [currentAltitude |-> currentAltitude, baseAltitude |-> baseAltitude,
                minSpeed |-> minSpeed, maxSpeed |-> maxSpeed],
     flight |-> 0,
     args |-> <<>>, value |-> Null]

\* Cesium.JulianDate.now()
JulianNow == Num(now)
\* Cesium.JulianDate.addSeconds(julianDate, seconds, result)
AddSeconds(julianDate, seconds) == Add(julianDate, seconds)
\* Cesium.JulianDate.secondsDifference(left, right)
SecondsDifference(left, right) == Sub(left, right)

\* The clock of the Cesium.Viewer the Viewer constructor creates and then
\* halts: shouldAnimate = false, currentTime = JulianDate.now().
InitialClock ==
    [startTime |-> Num(0), stopTime |-> Num(86400), currentTime |-> Num(0),
     clockRange |-> "UNBOUNDED", multiplier |-> Num(1), shouldAnimate |-> FALSE]

\* new FlightDataLoader(filePaths): nothing loaded yet.  files[p] is what
\* the path p resolves to when it is fetched.
NewLoader(files) ==
    [files |-> files, flightData |-> <<>>, isLoaded |-> FALSE, loadDataCalled |-> FALSE]

\* The globe before waitForGlobe is called: no timer set, no listener
\* registered, the tiles not loaded.  t is the time since the call in
\* milliseconds.
GlobeBefore ==
    [pc |-> "idle", t |-> 0, tilesLoaded |-> FALSE, moveEndListener |-> FALSE,
     deadline |-> "unset", polling |-> FALSE, pollDue |-> FALSE,
     sawMoveEnd |-> FALSE, sawTilesLoaded |-> FALSE,
     promise |-> "none", log |-> "none"]

\* The state after the page constructed its Viewer, Timeline and Clock: the
\* Clock's constructor has scheduled its update interval, no base altitude
\* is captured yet, the camera is where the page put it.
PageObjects ==
    /\ config \in Configs
    /\ now = 0
    /\ globalTimeline = NullTimeline
    /\ isAnimating = FALSE
    /\ cesiumClock = InitialClock
    /\ entities = {}
    /\ viewerBaseAltitude = Undefined
    /\ cameraAltitude = Num(1)
    /\ scheduled = {"Clock.updateInterval"}
    /\ lastCall = Call("constructor", "ok")

\* The sessions that begin with the flights already loaded leave the wait
\* for the globe and the loader out: both stay as they were created.
Constructed ==
    /\ PageObjects
    /\ loader = NewLoader(<<>>)
    /\ globe = GlobeBefore

\* A session of free calls on the Timeline.
Init == flights \in SessionBatches /\ Constructed

\* getFlights(count): the first count flights, flightData.slice(0, count).
GetFlights(count) ==
    SubSeq(flights, 1, IF count < Len(flights) THEN count ELSE Len(flights))

\* ------------------------------------------------- Timeline operations
\* The operation throws: nothing but the record of the call changes.
Throw(call) ==
    /\ lastCall' = call
    /\ UNCHANGED <<loader, globe, flights, config, viewerBaseAltitude, cameraAltitude, scheduled,
                   now, globalTimeline, isAnimating,
                   cesiumClock, entities>>

\* The forEach loop of calculateGlobalTimeline over the flights fs, with
\* the accumulators earliestStart and latestEnd (Null until first set).
RECURSIVE ScanFlights(_, _, _)
ScanFlights(fs, earliestStart, latestEnd) ==
    IF fs = <<>>
    THEN [earliestStart |-> earliestStart, latestEnd |-> latestEnd]
    ELSE LET tracks == Head(fs).tracks
         IN IF Len(tracks) > 0
            THEN LET flightStart == NewDate(tracks[1].timestamp)
                     flightEnd == NewDate(tracks[Len(tracks)].timestamp)
                 IN ScanFlights(
                        Tail(fs),
                        IF earliestStart = Null \/ Lt(flightStart, earliestStart)
                        THEN flightStart ELSE earliestStart,
                        IF latestEnd = Null \/ Gt(flightEnd, latestEnd)
                        THEN flightEnd ELSE latestEnd)
            ELSE ScanFlights(Tail(fs), earliestStart, latestEnd)

\* The timeline object calculateGlobalTimeline builds from the scan.
MakeTimeline(scan, animationScaleFactor, minDuration) ==
    LET globalRealDuration == Sub(scan.latestEnd, scan.earliestStart)
        globalAnimationDuration ==
            MathMax(Div(globalRealDuration, Num(animationScaleFactor)),
                    Num(minDuration))
    IN [earliestStart |-> scan.earliestStart,
        latestEnd |-> scan.latestEnd,
        animationStart |-> AddSeconds(JulianNow, Num(2)),
        animationDuration |-> globalAnimationDuration,
        realDurationHours |-> Div(globalRealDuration, Num(1000 * 60 * 60))]

\* calculateGlobalTimeline that would also set the clock going at the new
\* animationStart.
CalculateGlobalTimelineStartsClock(given, fl, animationScaleFactor, minDuration) ==
    IF ~given \/ Len(fl) = 0
    THEN Throw(CalcCall("No flights provided", NullTimeline, given, fl))
    ELSE LET scan == ScanFlights(fl, Null, Null)
         IN IF scan.earliestStart = Null \/ scan.latestEnd = Null
            THEN Throw(CalcCall("Could not determine valid global timeline",
                                NullTimeline, given, fl))
            ELSE LET tl == MakeTimeline(scan, animationScaleFactor, minDuration)
                 IN /\ globalTimeline' = tl
                    /\ cesiumClock' =
                           [cesiumClock EXCEPT !.currentTime = tl.animationStart,
                                               !.shouldAnimate = TRUE]
                    /\ lastCall' = CalcCall("ok", tl, given, fl)
                    /\ UNCHANGED <<loader, globe, flights, config, viewerBaseAltitude,
                                   cameraAltitude, scheduled, now, isAnimating,
                                   entities>>

\* calculateGlobalTimeline without its check that the scan found a span.
CalculateGlobalTimelineUnchecked(given, fl, animationScaleFactor, minDuration) ==
    IF ~given \/ Len(fl) = 0
    THEN Throw(CalcCall("No flights provided", NullTimeline, given, fl))
    ELSE LET tl == MakeTimeline(ScanFlights(fl, Null, Null),
                                animationScaleFactor, minDuration)
         IN /\ globalTimeline' = tl
            /\ lastCall' = CalcCall("ok", tl, given, fl)
            /\ UNCHANGED <<loader, globe, flights, config, viewerBaseAltitude, cameraAltitude, scheduled,
                           now, isAnimating, cesiumClock, entities>>

\* calculateGlobalTimeline(fl, animationScaleFactor, minDuration);
\* given = FALSE is a call without a flights argument.
CalculateGlobalTimeline(given, fl, animationScaleFactor, minDuration) ==
    IF ~given \/ Len(fl) = 0
    THEN Throw(CalcCall("No flights provided", NullTimeline, given, fl))
    ELSE LET scan == ScanFlights(fl, Null, Null)
         IN IF scan.earliestStart = Null \/ scan.latestEnd = Null
            THEN Throw(CalcCall("Could not determine valid global timeline",
                                NullTimeline, given, fl))
            ELSE LET tl == MakeTimeline(scan, animationScaleFactor, minDuration)
                 IN /\ globalTimeline' = tl
                    /\ lastCall' = CalcCall("ok", tl, given, fl)
                    /\ UNCHANGED <<loader, globe, flights, config, viewerBaseAltitude, cameraAltitude, scheduled,
                                   now, isAnimating, cesiumClock,
                                   entities>>

\* startAnimation without its check that the animation is not running.
StartAnimationRestarts ==
    IF globalTimeline = NullTimeline
    THEN Throw(Call("startAnimation", "No global timeline available"))
    ELSE /\ cesiumClock' =
                [startTime |-> globalTimeline.animationStart,
                 stopTime |-> AddSeconds(globalTimeline.animationStart,
                                         globalTimeline.animationDuration),
                 currentTime |-> globalTimeline.animationStart,
                 clockRange |-> "CLAMPED",
                 multiplier |-> Num(1),
                 shouldAnimate |-> TRUE]
         /\ isAnimating' = TRUE
         /\ lastCall' = Call("startAnimation", "ok")
         /\ UNCHANGED <<loader, globe, flights, config, viewerBaseAltitude, cameraAltitude, scheduled,
                        now, globalTimeline, entities>>

\* startAnimation that would resume a stopped session where it stood.
StartAnimationResumes ==
    IF globalTimeline = NullTimeline
    THEN Throw(Call("startAnimation", "No global timeline available"))
    ELSE IF isAnimating
    THEN Throw(Call("startAnimation", "Animation is already running"))
    ELSE /\ cesiumClock' =
                IF cesiumClock.clockRange = "CLAMPED"
                THEN [cesiumClock EXCEPT !.shouldAnimate = TRUE]
                ELSE [startTime |-> globalTimeline.animationStart,
                      stopTime |-> AddSeconds(globalTimeline.animationStart,
                                              globalTimeline.animationDuration),
                      currentTime |-> globalTimeline.animationStart,
                      clockRange |-> "CLAMPED",
                      multiplier |-> Num(1),
                      shouldAnimate |-> TRUE]
         /\ isAnimating' = TRUE
         /\ lastCall' = Call("startAnimation", "ok")
         /\ UNCHANGED <<loader, globe, flights, config, viewerBaseAltitude,
                        cameraAltitude, scheduled, now, globalTimeline, entities>>

StartAnimation ==
    IF globalTimeline = NullTimeline
    THEN Throw(Call("startAnimation", "No global timeline available"))
    ELSE IF isAnimating
    THEN Throw(Call("startAnimation", "Animation is already running"))
    ELSE LET globalAnimationEnd ==
                 AddSeconds(globalTimeline.animationStart,
                            globalTimeline.animationDuration)
         IN /\ cesiumClock' =
                   [startTime |-> globalTimeline.animationStart,
                    stopTime |-> globalAnimationEnd,
                    currentTime |-> globalTimeline.animationStart,
                    clockRange |-> "CLAMPED",
                    multiplier |-> Num(1),
                    shouldAnimate |-> TRUE]
            /\ isAnimating' = TRUE
            /\ lastCall' = Call("startAnimation", "ok")
            /\ UNCHANGED <<loader, globe, flights, config, viewerBaseAltitude, cameraAltitude, scheduled,
                           now, globalTimeline, entities>>

StopAnimation ==
    /\ cesiumClock' = [cesiumClock EXCEPT !.shouldAnimate = FALSE]
    /\ isAnimating' = FALSE
    /\ lastCall' = Call("stopAnimation", "ok")
    /\ UNCHANGED <<loader, globe, flights, config, viewerBaseAltitude, cameraAltitude, scheduled,
                   now, globalTimeline, entities>>

\* reset that drops the timeline without stopping the animation first.
ResetKeepsPlaying ==
    /\ cesiumClock' = [cesiumClock EXCEPT !.currentTime = JulianNow,
                                          !.startTime = Undefined,
                                          !.stopTime = Undefined]
    /\ globalTimeline' = NullTimeline
    /\ lastCall' = Call("reset", "ok")
    /\ UNCHANGED <<loader, globe, flights, config, viewerBaseAltitude,
                   cameraAltitude, scheduled, now, entities, isAnimating>>

\* reset that refuses to run when there is nothing to reset.
ResetFailsWhenIdle ==
    IF globalTimeline = NullTimeline /\ ~isAnimating
    THEN Throw(Call("reset", "Nothing to reset"))
    ELSE /\ cesiumClock' = [cesiumClock EXCEPT !.shouldAnimate = FALSE,
                                               !.currentTime = JulianNow,
                                               !.startTime = Undefined,
                                               !.stopTime = Undefined]
         /\ isAnimating' = FALSE
         /\ globalTimeline' = NullTimeline
         /\ lastCall' = Call("reset", "ok")
         /\ UNCHANGED <<loader, globe, flights, config, viewerBaseAltitude, cameraAltitude,
                        scheduled, now, entities>>

\* reset that stops the clock but keeps the stored timeline.
ResetKeepsTimeline ==
    /\ cesiumClock' = [cesiumClock EXCEPT !.shouldAnimate = FALSE,
                                          !.currentTime = JulianNow,
                                          !.startTime = Undefined,
                                          !.stopTime = Undefined]
    /\ isAnimating' = FALSE
    /\ lastCall' = Call("reset", "ok")
    /\ UNCHANGED <<loader, globe, flights, config, viewerBaseAltitude, cameraAltitude, scheduled,
                   now, globalTimeline, entities>>

Reset ==
    /\ cesiumClock' = [cesiumClock EXCEPT !.shouldAnimate = FALSE,
                                          !.currentTime = JulianNow,
                                          !.startTime = Undefined,
                                          !.stopTime = Undefined]
    /\ isAnimating' = FALSE
    /\ globalTimeline' = NullTimeline
    /\ lastCall' = Call("reset", "ok")
    /\ UNCHANGED <<loader, globe, flights, config, viewerBaseAltitude, cameraAltitude, scheduled,
                   now, entities>>

\* Math.max(minSpeed, Math.min(maxSpeed, currentAltitude / baseAltitude))
ClampedMultiplier(currentAltitude, baseAltitude, minSpeed, maxSpeed) ==
    MathMax(minSpeed, MathMin(maxSpeed, Div(currentAltitude, baseAltitude)))

\* The rate update without its check that the animation is running.
UpdateSpeedAlways(currentAltitude, baseAltitude, minSpeed, maxSpeed) ==
    /\ lastCall' = SpeedCall(currentAltitude, baseAltitude, minSpeed, maxSpeed)
    /\ cesiumClock' =
           [cesiumClock EXCEPT !.multiplier =
               ClampedMultiplier(currentAltitude, baseAltitude, minSpeed, maxSpeed)]
    /\ UNCHANGED <<loader, globe, flights, config, viewerBaseAltitude, cameraAltitude, scheduled,
                   now, globalTimeline, isAnimating, entities>>

\* The rate update that also shortens the session by the new rate.
UpdateSpeedRescalesSession(currentAltitude, baseAltitude, minSpeed, maxSpeed) ==
    /\ lastCall' = SpeedCall(currentAltitude, baseAltitude, minSpeed, maxSpeed)
    /\ IF ~isAnimating
       THEN UNCHANGED cesiumClock
       ELSE LET m == ClampedMultiplier(currentAltitude, baseAltitude,
                                       minSpeed, maxSpeed)
            IN cesiumClock' =
                   [cesiumClock EXCEPT
                       !.multiplier = m,
                       !.stopTime = AddSeconds(cesiumClock.startTime,
                                        Div(globalTimeline.animationDuration, m))]
    /\ UNCHANGED <<loader, globe, flights, config, viewerBaseAltitude, cameraAltitude, scheduled,
                   now, globalTimeline, isAnimating, entities>>

UpdateSpeedForConstantPixelRate(currentAltitude, baseAltitude, minSpeed, maxSpeed) ==
    /\ lastCall' = SpeedCall(currentAltitude, baseAltitude, minSpeed, maxSpeed)
    /\ IF ~isAnimating
       THEN UNCHANGED cesiumClock
       ELSE cesiumClock' =
                [cesiumClock EXCEPT !.multiplier =
                    ClampedMultiplier(currentAltitude, baseAltitude,
                                      minSpeed, maxSpeed)]
    /\ UNCHANGED <<loader, globe, flights, config, viewerBaseAltitude, cameraAltitude, scheduled,
                   now, globalTimeline, isAnimating, entities>>

\* ------------------------------------------------- Viewer.drawFlightPath
\* The timelineParams object the page passes to drawFlightPath.
TimelineParams(tl) ==
    [earliestStart |-> tl.earliestStart, latestEnd |-> tl.latestEnd,
     animationStart |-> tl.animationStart,
     animationDuration |-> tl.animationDuration]

\* startTime: the flight's first timestamp mapped into the global animation.
FlightStartTime(tracks, tp) ==
    LET realStartTime == NewDate(tracks[1].timestamp)
        globalRealDuration == Sub(tp.latestEnd, tp.earliestStart)
        flightStartOffset ==
            Div(Sub(realStartTime, tp.earliestStart), globalRealDuration)
    IN AddSeconds(tp.animationStart, Mul(flightStartOffset, tp.animationDuration))

\* endTime: the flight's last timestamp mapped into the global animation.
FlightEndTime(tracks, tp) ==
    LET realEndTime == NewDate(tracks[Len(tracks)].timestamp)
        globalRealDuration == Sub(tp.latestEnd, tp.earliestStart)
        flightEndOffset ==
            Div(Sub(realEndTime, tp.earliestStart), globalRealDuration)
    IN AddSeconds(tp.animationStart, Mul(flightEndOffset, tp.animationDuration))

\* animationTime of sample i: its place inside [startTime, endTime].
SampleAnimationTime(tracks, tp, i) ==
    LET realStartTime == NewDate(tracks[1].timestamp)
        realEndTime == NewDate(tracks[Len(tracks)].timestamp)
        startTime == FlightStartTime(tracks, tp)
        flightAnimationDuration ==
            SecondsDifference(FlightEndTime(tracks, tp), startTime)
        trackTime == NewDate(tracks[i].timestamp)
        timeProgress ==
            Div(Sub(trackTime, realStartTime), Sub(realEndTime, realStartTime))
    IN AddSeconds(startTime, Mul(timeProgress, flightAnimationDuration))

\* feetToMeters(feet): feet * 0.3048.
FeetToMeters(feet) == Mul(feet, Rat(3048, 10000))

\* Cesium.Cartesian3.fromDegrees(track.lon, track.lat, feetToMeters(track.alt)),
\* kept as the point's longitude, latitude and height.
SamplePosition(track) ==
    [lon |-> Num(track.lon), lat |-> Num(track.lat),
     height |-> FeetToMeters(Num(track.alt))]

\* The entity added for flight f: the samples added to its
\* SampledPositionProperty in the order of the loop (times and positions),
\* its availability interval [startTime, globalAnimationEnd], and the
\* startTime, endTime and globalAnimationEnd computed on the way.
MakeEntity(f, tracks, tp) ==
    [flight |-> f,
     start |-> FlightStartTime(tracks, tp),
     end |-> FlightEndTime(tracks, tp),
     stop |-> AddSeconds(tp.animationStart, tp.animationDuration),
     times |-> [i \in 1..Len(tracks) |-> SampleAnimationTime(tracks, tp, i)],
     positions |-> [i \in 1..Len(tracks) |-> SamplePosition(tracks[i])],
     availability |->
         [start |-> FlightStartTime(tracks, tp),
          stop |-> AddSeconds(tp.animationStart, tp.animationDuration)],
     params |-> tp]

\* The value of entity e's SampledPositionProperty at time t when t is the
\* time of a sample: the position added there, the one added last when
\* several samples were added at that time; NoPosition when no sample was
\* added at t.
NoPosition == [lon |-> NaN, lat |-> NaN, height |-> NaN]
SamplesAt(e, t) == {i \in 1..Len(e.times) : Eq(e.times[i], t)}
PositionAt(e, t) ==
    IF SamplesAt(e, t) = {} THEN NoPosition
    ELSE e.positions[CHOOSE i \in SamplesAt(e, t) : \A j \in SamplesAt(e, t) : j <= i]

\* Whether entity e is available (eligible for display) at time t: t lies
\* in its availability interval, ends included.
Available(e, t) == Le(e.availability.start, t) /\ Le(t, e.availability.stop)

\* drawFlightPath without its check for fewer than two tracks.
DrawFlightPathNoMinimum(f) ==
    /\ globalTimeline # NullTimeline
    /\ \A e \in entities : e.flight # f
    /\ LET tracks == flights[f].tracks
       IN IF Len(tracks) = 0
          THEN /\ lastCall' = DrawCall(f, "null: no tracks")
               /\ UNCHANGED entities
          ELSE /\ entities' = entities \cup
                       {MakeEntity(f, tracks, TimelineParams(globalTimeline))}
               /\ lastCall' = DrawCall(f, "ok")
    /\ UNCHANGED <<loader, globe, flights, config, viewerBaseAltitude, cameraAltitude, scheduled,
                   now, globalTimeline, isAnimating, cesiumClock>>

\* The page draws flight f of the batch with the timeline it computed.
DrawFlightPath(f) ==
    /\ globalTimeline # NullTimeline
    /\ \A e \in entities : e.flight # f
    /\ LET tracks == flights[f].tracks
       IN IF Len(tracks) = 0
          THEN /\ lastCall' = DrawCall(f, "null: no tracks")
               /\ UNCHANGED entities
          ELSE IF Len(tracks) < 2
          THEN /\ lastCall' = DrawCall(f, "null: not enough positions")
               /\ UNCHANGED entities
          ELSE /\ entities' = entities \cup
                       {MakeEntity(f, tracks, TimelineParams(globalTimeline))}
               /\ lastCall' = DrawCall(f, "ok")
    /\ UNCHANGED <<loader, globe, flights, config, viewerBaseAltitude, cameraAltitude, scheduled,
                   now, globalTimeline, isAnimating, cesiumClock>>

\* Viewer.clearEntities(): removes every entity and resets the clock.
ClearEntities ==
    /\ entities' = {}
    /\ cesiumClock' = [cesiumClock EXCEPT !.currentTime = JulianNow,
                                          !.shouldAnimate = FALSE,
                                          !.startTime = Undefined,
                                          !.stopTime = Undefined]
    /\ lastCall' = Call("clearEntities", "ok")
    /\ UNCHANGED <<loader, globe, flights, config, viewerBaseAltitude,
                   cameraAltitude, scheduled, now, globalTimeline, isAnimating>>

\* ------------------------------------------------------- the clock tick
\* One second of wall time passes and the render loop ticks the clock:
\* an animating clock advances by its multiplier and, when its range is
\* CLAMPED, stays within [startTime, stopTime].
TickedTime(clock) ==
    LET advanced == AddSeconds(clock.currentTime, clock.multiplier)
    IN IF ~clock.shouldAnimate THEN clock.currentTime
       ELSE IF clock.clockRange # "CLAMPED" THEN advanced
       ELSE IF Lt(advanced, clock.startTime) THEN clock.startTime
       ELSE IF Gt(advanced, clock.stopTime) THEN clock.stopTime
       ELSE advanced

\* A tick that would end the session when the clock reaches its stopTime.
TickEndsSession ==
    /\ now < MaxNow
    /\ now' = now + 1
    /\ cesiumClock' = [cesiumClock EXCEPT !.currentTime = TickedTime(cesiumClock)]
    /\ isAnimating' = (isAnimating /\ ~Eq(TickedTime(cesiumClock), cesiumClock.stopTime))
    /\ lastCall' = Call("tick", "ok")
    /\ UNCHANGED <<loader, globe, flights, config, viewerBaseAltitude,
                   cameraAltitude, scheduled, globalTimeline, entities>>

Tick ==
    /\ now < MaxNow
    /\ now' = now + 1
    /\ cesiumClock' = [cesiumClock EXCEPT !.currentTime = TickedTime(cesiumClock)]
    /\ lastCall' = Call("tick", "ok")
    /\ UNCHANGED <<loader, globe, flights, config, viewerBaseAltitude, cameraAltitude, scheduled,
                   globalTimeline, isAnimating, entities>>

\* --------------------------------------------------------- specification
Next ==
    \/ \E given \in BOOLEAN, count \in 0..Len(flights) :
           CalculateGlobalTimeline(given, IF given THEN GetFlights(count) ELSE <<>>,
                                   config.animationScaleFactor, config.minDuration)
    \/ StartAnimation
    \/ StopAnimation
    \/ Reset
    \/ \E ca \in Altitudes, ba \in Altitudes, r \in SpeedRanges :
           UpdateSpeedForConstantPixelRate(Num(ca), Num(ba), r[1], r[2])
    \/ Tick

Spec == Init /\ [][Next]_vars

\* ------------------------------------------------------- the page script
\* index.html: once the flights are loaded the script computes the global
\* timeline of the first FlightsToDraw flights, draws each of them with it
\* and starts the animation, in one synchronous run; the clock ticks
\* before and after that run.
FlightsToDraw == 500

PageInit == flights \in LoadedBatches /\ Constructed

PageCalculate ==
    /\ lastCall.op \in {"constructor", "tick"}
    /\ globalTimeline = NullTimeline
    /\ CalculateGlobalTimeline(TRUE, GetFlights(FlightsToDraw),
                               config.animationScaleFactor, config.minDuration)

PageDraw ==
    /\ ~isAnimating
    /\ \E f \in 1..Len(GetFlights(FlightsToDraw)) : DrawFlightPath(f)

PageStart ==
    /\ globalTimeline # NullTimeline
    /\ ~isAnimating
    /\ StartAnimation

PageTick ==
    /\ globalTimeline = NullTimeline \/ isAnimating
    /\ Tick

PageNext == PageCalculate \/ PageDraw \/ PageStart \/ PageTick

PageSpec == PageInit /\ [][PageNext]_vars

\* The same script on the batches of the session flights.
ScriptInit == flights \in ScriptBatches /\ Constructed

ScriptSpec == ScriptInit /\ [][PageNext]_vars

\* ------------------------------------------- repeated timeline calculation
\* A caller that computes the timeline again and again, for any number of
\* the flights it holds (any array of flight objects, flights without
\* tracks included), between starting and stopping the animation.
CalcInit == flights \in CalcBatches /\ Constructed

CalcNext ==
    \/ \E given \in BOOLEAN, count \in 0..Len(flights) :
           CalculateGlobalTimeline(given, IF given THEN GetFlights(count) ELSE <<>>,
                                   config.animationScaleFactor, config.minDuration)
    \/ StartAnimation
    \/ StopAnimation

CalcSpec == CalcInit /\ [][CalcNext]_vars

\* ------------------------------------------------- the FlightDataLoader
\* What fetching a path and parsing its body can come to: the fetch is
\* rejected, the response is not OK, the body is not JSON, or the body is
\* the array of one flight, whose track list can be missing or empty.
FetchFailures == {"fetch rejected", "status not ok", "not JSON"}
Files ==
    [fetch : FetchFailures, flight : {[tracks |-> <<>>]}]
        \cup [fetch : {"ok"}, flight : SessionFlights]
FileLists == SeqsUpTo(Files, MaxFiles)

\* The data of a load result: null after a failure, the parsed array
\* otherwise.
JsonNull == [isNull |-> TRUE, array |-> <<>>]
JsonArray(flight) == [isNull |-> FALSE, array |-> <<flight>>]

\* The results of Promise.all(loadPromises): { filePath, data } per path,
\* data null where the inner catch caught the failure.
LoadResults(files) ==
    [p \in 1..Len(files) |->
        [filePath |-> p,
         data |-> IF files[p].fetch = "ok" THEN JsonArray(files[p].flight)
                  ELSE JsonNull]]

\* getEarliestTimestamp(flightData): the error it throws ("ok" for none)
\* and the timestamp of the first track it returns.
EarliestTimestampError(data) ==
    IF data.isNull \/ Len(data.array) = 0
    THEN "Flight data is missing or invalid"
    ELSE IF Len(data.array[1].tracks) = 0
    THEN "Flight tracks are missing or empty"
    ELSE "ok"
GetEarliestTimestamp(data) == data.array[1].tracks[1].timestamp

\* The element .map builds for a result that loaded.
LoadedItem(result) ==
    [filePath |-> result.filePath, flightData |-> result.data,
     earliestTimestamp |-> GetEarliestTimestamp(result.data)]

\* The comparator of the sort, new Date(a.earliestTimestamp) -
\* new Date(b.earliestTimestamp), as Array.prototype.sort reads it: NaN
\* counts as +0.
SortCompare(a, b) ==
    LET v == Sub(NewDate(a.earliestTimestamp), NewDate(b.earliestTimestamp))
    IN IF IsNaN(v) THEN Num(0) ELSE v

\* Whether the comparator is a consistent comparator for the items: only
\* then is the sort order defined, otherwise it is implementation-defined.
ConsistentComparator(items) ==
    LET I == 1..Len(items)
        eq(i, j) == SortCompare(items[i], items[j]) = Num(0)
        lt(i, j) == Lt(SortCompare(items[i], items[j]), Num(0))
    IN \A i, j, k \in I :
           /\ (eq(i, j) /\ eq(j, k)) => eq(i, k)
           /\ (lt(i, j) /\ lt(j, k)) => lt(i, k)
           /\ (eq(i, j) /\ lt(j, k)) => lt(i, k)
           /\ (lt(i, j) /\ eq(j, k)) => lt(i, k)

Perms(n) == {p \in [1..n -> 1..n] : \A i, j \in 1..n : i # j => p[i] # p[j]}

\* items.sort(compareFn): the arrays the sort can leave.  With a consistent
\* comparator the one stable order; any permutation otherwise.
ArraySort(items) ==
    LET n == Len(items)
        Stable(p) ==
            \A i, j \in 1..n :
                i < j => \/ Lt(SortCompare(items[p[i]], items[p[j]]), Num(0))
                         \/ /\ SortCompare(items[p[i]], items[p[j]]) = Num(0)
                            /\ p[i] < p[j]
    IN {[k \in 1..n |-> items[p[k]]] :
           p \in {q \in Perms(n) : ConsistentComparator(items) => Stable(q)}}

\* The results of the files that loaded: results.filter(data !== null).
LoadedResults(results) ==
    LET Kept(r) == ~r.data.isNull
    IN SelectSeq(results, Kept)

\* loadData that drops a file without tracks like a file that failed.
LoadDataSkipsEmptyTracks ==
    /\ ~loader.loadDataCalled
    /\ LET Usable(r) == EarliestTimestampError(r.data) = "ok"
           kept == SelectSeq(LoadResults(loader.files), Usable)
           items == [k \in 1..Len(kept) |-> LoadedItem(kept[k])]
       IN \E sorted \in ArraySort(items) :
              loader' = [loader EXCEPT !.loadDataCalled = TRUE,
                                       !.flightData = sorted,
                                       !.isLoaded = TRUE]
    /\ lastCall' = Call("loadData", "ok")
    /\ UNCHANGED <<globe, flights, config, now, globalTimeline, isAnimating,
                   cesiumClock, entities, viewerBaseAltitude, cameraAltitude,
                   scheduled>>

\* loadData(), called once on a new loader: it fails with the error of the
\* first loaded file getEarliestTimestamp rejects, before anything is
\* assigned; otherwise it stores the sorted items and sets isLoaded.
LoadData ==
    /\ ~loader.loadDataCalled
    /\ LET kept == LoadedResults(LoadResults(loader.files))
           failing == {k \in 1..Len(kept) :
                          EarliestTimestampError(kept[k].data) # "ok"}
       IN IF failing # {}
          THEN /\ loader' = [loader EXCEPT !.loadDataCalled = TRUE]
               /\ lastCall' =
                      Call("loadData",
                           EarliestTimestampError(
                               kept[CHOOSE k \in failing :
                                        \A m \in failing : k <= m].data))
          ELSE /\ \E sorted \in
                      ArraySort([k \in 1..Len(kept) |-> LoadedItem(kept[k])]) :
                      loader' = [loader EXCEPT !.loadDataCalled = TRUE,
                                               !.flightData = sorted,
                                               !.isLoaded = TRUE]
               /\ lastCall' = Call("loadData", "ok")
    /\ UNCHANGED <<globe, flights, config, now, globalTimeline, isAnimating,
                   cesiumClock, entities, viewerBaseAltitude, cameraAltitude,
                   scheduled>>

\* The array getFlights(count) returns: flightData.slice(0, count) mapped
\* to { data, filePath }.
SlicedFlights(count) ==
    LET n == IF count < Len(loader.flightData) THEN count
             ELSE Len(loader.flightData)
    IN [k \in 1..n |-> [data |-> loader.flightData[k].flightData,
                        filePath |-> loader.flightData[k].filePath]]

\* flightDataLoader.getFlights(count); the page keeps the flights returned.
GetFlightsOfLoader(count) ==
    IF ~loader.isLoaded
    THEN Throw([Call("getFlights", "Data not loaded yet") EXCEPT !.args = <<count>>])
    ELSE /\ lastCall' = [Call("getFlights", "ok") EXCEPT
                            !.args = <<count>>, !.value = SlicedFlights(count)]
         /\ flights' = [k \in 1..Len(SlicedFlights(count)) |->
                           SlicedFlights(count)[k].data.array[1]]
         /\ UNCHANGED <<loader, globe, config, now, globalTimeline, isAnimating,
                        cesiumClock, entities, viewerBaseAltitude, cameraAltitude,
                        scheduled>>

\* The counts getFlights is called with: none, some, all, more than all,
\* and the page's FLIGHTS_TO_DRAW.
Counts == (0..(MaxFiles + 1)) \cup {FlightsToDraw}

\* A new loader on any list of files, loaded once and queried before and
\* after.  The loader reads nothing of the page's configuration, which is
\* held at one value.
LoaderInit ==
    /\ flights = <<>>
    /\ PageObjects
    /\ config = [animationScaleFactor |-> 1, minDuration |-> 1]
    /\ loader \in {NewLoader(files) : files \in FileLists}
    /\ globe = GlobeBefore

LoaderNext ==
    \/ LoadData
    \/ \E count \in Counts : GetFlightsOfLoader(count)

LoaderSpec == LoaderInit /\ [][LoaderNext]_vars

\* ------------------------------------------------------- waitForGlobe
\* The deadline of the readiness check and the period of its tiles poll,
\* in milliseconds.
GlobeDeadlineMs == 10000
TilesPollMs == 100

\* waitForGlobe(viewer) up to its first await: the camera is set to the
\* page's position, the deadline timer is set, the moveEnd listener is
\* registered.
WaitForGlobe ==
    /\ globe.pc = "idle"
    /\ cameraAltitude' = Num(1)
    /\ globe' = [globe EXCEPT !.pc = "awaitMove", !.t = 0,
                              !.deadline = "pending",
                              !.moveEndListener = TRUE,
                              !.promise = "pending",
                              !.log = "Starting globe readiness check..."]
    /\ lastCall' = Call("waitForGlobe", "pending")
    /\ UNCHANGED <<loader, flights, config, now, globalTimeline, isAnimating,
                   cesiumClock, entities, viewerBaseAltitude, scheduled>>

\* checkTiles(): resolves the tiles promise when the tiles are loaded, and
\* otherwise sets the timer of the next poll.  If the function is still
\* waiting for the tiles, the resolution lets it log "Globe is ready" and
\* return.
CheckTiles(g) ==
    IF g.tilesLoaded
    THEN [g EXCEPT !.polling = FALSE, !.pollDue = FALSE,
                   !.sawTilesLoaded = TRUE,
                   !.pc = IF g.pc = "awaitTiles" THEN "done" ELSE g.pc,
                   !.promise = IF g.pc = "awaitTiles" THEN "fulfilled"
                               ELSE g.promise,
                   !.log = IF g.pc = "awaitTiles" THEN "Globe is ready"
                           ELSE g.log]
    ELSE [g EXCEPT !.polling = TRUE, !.pollDue = FALSE]

\* The camera's moveEnd event reaches the listener: it removes itself and
\* resolves the camera promise; a function still waiting for the move goes
\* on to the tiles and checks them at once.
CameraMoveEnd ==
    /\ globe.moveEndListener
    /\ LET seen == [globe EXCEPT !.moveEndListener = FALSE, !.sawMoveEnd = TRUE]
       IN globe' = IF globe.pc = "awaitMove"
                   THEN CheckTiles([seen EXCEPT !.pc = "awaitTiles"])
                   ELSE seen
    /\ lastCall' = Call("camera.moveEnd", "ok")
    /\ UNCHANGED <<loader, flights, config, now, globalTimeline, isAnimating,
                   cesiumClock, entities, viewerBaseAltitude, cameraAltitude,
                   scheduled>>

\* The globe's tiles finish loading, or new tiles are requested.
TilesChange ==
    /\ globe' = [globe EXCEPT !.tilesLoaded = ~globe.tilesLoaded]
    /\ lastCall' = Call("globe.tiles", "ok")
    /\ UNCHANGED <<loader, flights, config, now, globalTimeline, isAnimating,
                   cesiumClock, entities, viewerBaseAltitude, cameraAltitude,
                   scheduled>>

\* The deadline timer is due.
DeadlineDue(g) == g.deadline = "pending" /\ g.t >= GlobeDeadlineMs

\* One poll period passes, unless a timer that is due has yet to run.
GlobeTime ==
    /\ globe.pc # "idle"
    /\ globe.t < GlobeDeadlineMs
    /\ ~globe.pollDue
    /\ globe' = [globe EXCEPT !.t = globe.t + TilesPollMs,
                              !.pollDue = globe.polling]
    /\ lastCall' = Call("timePasses", "ok")
    /\ UNCHANGED <<loader, flights, config, now, globalTimeline, isAnimating,
                   cesiumClock, entities, viewerBaseAltitude, cameraAltitude,
                   scheduled>>

\* The poll timer runs checkTiles again; the deadline timer, set before
\* it, runs first when both are due.
PollTiles ==
    /\ globe.polling
    /\ globe.pollDue
    /\ ~DeadlineDue(globe)
    /\ globe' = CheckTiles(globe)
    /\ lastCall' = Call("checkTiles", "ok")
    /\ UNCHANGED <<loader, flights, config, now, globalTimeline, isAnimating,
                   cesiumClock, entities, viewerBaseAltitude, cameraAltitude,
                   scheduled>>

\* The deadline timer without the function's try/catch around the races.
DeadlineFiresUncaught ==
    /\ DeadlineDue(globe)
    /\ globe' = IF globe.pc \in {"awaitMove", "awaitTiles"}
                THEN [globe EXCEPT !.deadline = "fired", !.pc = "done",
                                   !.promise = "rejected"]
                ELSE [globe EXCEPT !.deadline = "fired"]
    /\ lastCall' = Call("deadline", "ok")
    /\ UNCHANGED <<loader, flights, config, now, globalTimeline, isAnimating,
                   cesiumClock, entities, viewerBaseAltitude, cameraAltitude,
                   scheduled>>

\* The deadline timer rejects the timeout promise: a race the function is
\* waiting on rejects, the catch logs it and the function returns; after
\* the function returned the rejection reaches nobody.
DeadlineFires ==
    /\ DeadlineDue(globe)
    /\ globe' = IF globe.pc \in {"awaitMove", "awaitTiles"}
                THEN [globe EXCEPT
                         !.deadline = "fired", !.pc = "done",
                         !.promise = "fulfilled",
                         !.log = "Error during readiness check, proceeding anyway"]
                ELSE [globe EXCEPT !.deadline = "fired"]
    /\ lastCall' = Call("deadline", "ok")
    /\ UNCHANGED <<loader, flights, config, now, globalTimeline, isAnimating,
                   cesiumClock, entities, viewerBaseAltitude, cameraAltitude,
                   scheduled>>

\* The page waits for the globe: the call, the passing of time with its
\* timers, and the events of the camera and the tiles in any order.
GlobeInit == flights = <<>> /\ Constructed

GlobeNext ==
    \/ WaitForGlobe
    \/ CameraMoveEnd
    \/ TilesChange
    \/ GlobeTime
    \/ PollTiles
    \/ DeadlineFires

\* Time passes and timers that are due run.
GlobeSpec ==
    /\ GlobeInit
    /\ [][GlobeNext]_vars
    /\ WF_vars(WaitForGlobe)
    /\ WF_vars(GlobeTime)
    /\ WF_vars(PollTiles)
    /\ WF_vars(DeadlineFires)

\* ------------------------------------- the camera and the Clock display
\* Viewer.enableAltitudeBasedSpeed(updateSpeedFunction): captures the
\* camera's altitude as the base and registers the camera.changed listener.
EnableAltitudeBasedSpeed ==
    /\ viewerBaseAltitude' = cameraAltitude
    /\ scheduled' = scheduled \cup {"camera.changed"}
    /\ lastCall' = Call("enableAltitudeBasedSpeed", "ok")
    /\ UNCHANGED <<loader, globe, flights, config, now, globalTimeline, isAnimating, cesiumClock,
                   entities, cameraAltitude>>

\* A camera move that would also re-capture the base altitude.
MoveCameraRebases(a) ==
    /\ cameraAltitude' = Num(a)
    /\ viewerBaseAltitude' = Num(a)
    /\ lastCall' = Call("moveCamera", "ok")
    /\ UNCHANGED <<loader, globe, flights, config, now, globalTimeline, isAnimating, cesiumClock,
                   entities, scheduled>>

\* The user moves the camera to altitude a.
MoveCamera(a) ==
    /\ cameraAltitude' = Num(a)
    /\ lastCall' = Call("moveCamera", "ok")
    /\ UNCHANGED <<loader, globe, flights, config, now, globalTimeline, isAnimating, cesiumClock,
                   entities, viewerBaseAltitude, scheduled>>

\* The defaults of updateSpeedForConstantPixelRate: minSpeed = 0.01,
\* maxSpeed = 100.
DefaultMinSpeed == Rat(1, 100)
DefaultMaxSpeed == Num(100)

\* The camera.changed listener: updateSpeedFunction(getCameraAltitude(),
\* this.baseAltitude), the bound Timeline method with its default range.
CameraChanged ==
    /\ "camera.changed" \in scheduled
    /\ UpdateSpeedForConstantPixelRate(cameraAltitude, viewerBaseAltitude,
                                       DefaultMinSpeed, DefaultMaxSpeed)

\* new Date(ms): the time value truncated to whole milliseconds, Invalid
\* Date (NaN) when it is not finite.
NewDateOfMs(x) ==
    IF ~IsFinite(x) THEN NaN
    ELSE Num(Sign(x.n) * (Abs(x.n) \div x.d))

\* Clock.calculateRealWorldTime(elapsedAnimationSeconds, globalTimeline)
CalculateRealWorldTime(elapsedAnimationSeconds, tl) ==
    IF Lt(elapsedAnimationSeconds, Num(0)) THEN tl.earliestStart
    ELSE IF Ge(elapsedAnimationSeconds, tl.animationDuration) THEN tl.latestEnd
    ELSE LET animationProgress == Div(elapsedAnimationSeconds, tl.animationDuration)
             totalRealWorldDuration == Sub(tl.latestEnd, tl.earliestStart)
             elapsedRealWorldTime == Mul(totalRealWorldDuration, animationProgress)
         IN NewDateOfMs(Add(tl.earliestStart, elapsedRealWorldTime))

\* Clock.updateClock, the callback of the 100 ms interval the Clock's
\* constructor scheduled: it shows "--:--:--" without a timeline, and the
\* real-world time of the clock's current time otherwise; formatting an
\* Invalid Date throws a RangeError out of the callback.
UpdateClock ==
    /\ "Clock.updateInterval" \in scheduled
    /\ lastCall' =
           IF globalTimeline = NullTimeline
           THEN Call("updateClock", "--:--:--")
           ELSE LET realWorldTime ==
                        CalculateRealWorldTime(
                            SecondsDifference(cesiumClock.currentTime,
                                              globalTimeline.animationStart),
                            globalTimeline)
                IN IF IsNaN(realWorldTime)
                   THEN Call("updateClock", "RangeError: Invalid time value")
                   ELSE Call("updateClock", "ok")
    /\ UNCHANGED <<loader, globe, flights, config, now, globalTimeline, isAnimating, cesiumClock,
                   entities, viewerBaseAltitude, cameraAltitude, scheduled>>

\* clock.calculateRealWorldTime(elapsedAnimationSeconds, globalTimeline)
\* called with the stored timeline, as updateClock calls it, for any elapsed
\* time in half seconds from -1 to MaxElapsed.
ElapsedValues == {Rat(k, 2) : k \in (0 - 2)..(2 * MaxElapsed)}

CalculateRealWorldTimeOf(elapsedAnimationSeconds) ==
    /\ globalTimeline # NullTimeline
    /\ lastCall' = [Call("calculateRealWorldTime", "ok") EXCEPT
                       !.args = <<elapsedAnimationSeconds, globalTimeline>>,
                       !.value = CalculateRealWorldTime(elapsedAnimationSeconds,
                                                        globalTimeline)]
    /\ UNCHANGED <<loader, globe, flights, config, now, globalTimeline,
                   isAnimating, cesiumClock, entities, viewerBaseAltitude,
                   cameraAltitude, scheduled>>

\* ------------------------------------------------------ a viewer session
\* The page with its user: the script enables the altitude-based speed,
\* computes the timeline, draws the flights and starts the animation; the
\* user moves the camera; the registered callbacks fire; the Timeline is
\* stopped and reset through its public methods, the entities are cleared
\* through the Viewer's.
ViewerInit == flights \in ViewerBatches /\ Constructed

ViewerEnable ==
    /\ "camera.changed" \notin scheduled
    /\ EnableAltitudeBasedSpeed

ViewerCalculate ==
    /\ "camera.changed" \in scheduled
    /\ globalTimeline = NullTimeline
    /\ CalculateGlobalTimeline(TRUE, GetFlights(FlightsToDraw),
                               config.animationScaleFactor, config.minDuration)

ViewerNext ==
    \/ ViewerEnable
    \/ \E a \in Altitudes : MoveCamera(a)
    \/ CameraChanged
    \/ UpdateClock
    \/ ViewerCalculate
    \/ PageDraw
    \/ PageStart
    \/ StopAnimation
    \/ Reset
    \/ ClearEntities

ViewerSpec == ViewerInit /\ [][ViewerNext]_vars

\* ----------------------------------------------------- the Clock display
\* The page's timeline of the loaded flights, the clock started and
\* ticking, the display updated, and the time mapping asked for any
\* elapsed time.
ClockInit == flights \in ScriptBatches /\ Constructed

ClockNext ==
    \/ PageCalculate
    \/ PageStart
    \/ PageTick
    \/ UpdateClock
    \/ \E e \in ElapsedValues : CalculateRealWorldTimeOf(e)

ClockSpec == ClockInit /\ [][ClockNext]_vars

\* ================================================================ claims
CalcOk == lastCall.op = "calculateGlobalTimeline" /\ lastCall.result = "ok"
TracksOf(e) == flights[e.flight].tracks
SampleTime(e, i) == NewDate(TracksOf(e)[i].timestamp)
HasSamples(fl) == {k \in 1..Len(fl) : Len(fl[k].tracks) > 0}
FirstTime(f) == NewDate(f.tracks[1].timestamp)
LastTime(f) == NewDate(f.tracks[Len(f.tracks)].timestamp)

\* C1: all drawn trajectories of a batch lie on one linear time map: a
\* sample with real time t is placed at animationStart +
\* (t - earliestStart) / (latestEnd - earliestStart) * animationDuration, so
\* samples with t1 <= t2 are placed at c1 <= c2.
C1_OneSharedTimeMap ==
    \A e1 \in entities, e2 \in entities :
        \A i \in 1..Len(e1.times), j \in 1..Len(e2.times) :
            /\ e1.times[i] =
                   AddSeconds(e1.params.animationStart,
                       Mul(Div(Sub(SampleTime(e1, i), e1.params.earliestStart),
                               Sub(e1.params.latestEnd, e1.params.earliestStart)),
                           e1.params.animationDuration))
            /\ Le(SampleTime(e1, i), SampleTime(e2, j))
                   => Le(e1.times[i], e2.times[j])

\* C2: whenever calculateGlobalTimeline succeeded on a non-empty batch, the
\* stored span has earliestStart <= latestEnd and contains the first and
\* the last sample time of every trajectory of the batch.
C2_SpanContainsEveryTrajectory ==
    CalcOk =>
        /\ Le(globalTimeline.earliestStart, globalTimeline.latestEnd)
        /\ \A k \in HasSamples(lastCall.flights) :
               LET f == lastCall.flights[k]
               IN /\ Le(globalTimeline.earliestStart, FirstTime(f))
                  /\ Le(FirstTime(f), globalTimeline.latestEnd)
                  /\ Le(globalTimeline.earliestStart, LastTime(f))
                  /\ Le(LastTime(f), globalTimeline.latestEnd)

\* C3: every drawn trajectory has animationStart <= compressedStart <=
\* compressedEnd <= animationStart + animationDuration.
C3_MappedIntervalInsideAnimation ==
    \A e \in entities :
        /\ Le(e.params.animationStart, e.start)
        /\ Le(e.start, e.end)
        /\ Le(e.end, AddSeconds(e.params.animationStart, e.params.animationDuration))

\* C4: the animationDuration calculateGlobalTimeline returns is
\* max((latestEnd - earliestStart) / scaleFactor, minDuration), earliestStart
\* being the least first-sample time and latestEnd the greatest last-sample
\* time of the trajectories that have a sample.
C4_DurationIsScaledSpanOrFloor ==
    CalcOk =>
        \E a \in HasSamples(lastCall.flights), b \in HasSamples(lastCall.flights) :
            LET earliest == FirstTime(lastCall.flights[a])
                latest == LastTime(lastCall.flights[b])
                scaled == Div(Sub(latest, earliest), Num(config.animationScaleFactor))
            IN /\ \A k \in HasSamples(lastCall.flights) :
                      /\ Le(earliest, FirstTime(lastCall.flights[k]))
                      /\ Le(LastTime(lastCall.flights[k]), latest)
               /\ Le(scaled, lastCall.returned.animationDuration)
               /\ Le(Num(config.minDuration), lastCall.returned.animationDuration)
               /\ lastCall.returned.animationDuration \in
                      {scaled, Num(config.minDuration)}

\* C5: a stored timeline's animationDuration is at least the minDuration
\* given to the call that produced it.
C5_DurationAtLeastMinDuration ==
    globalTimeline # NullTimeline =>
        Ge(globalTimeline.animationDuration, Num(config.minDuration))

\* C6: while playback is active the rate update sets the clock multiplier
\* to currentDistance / baseDistance clamped to [minSpeed, maxSpeed]: the
\* ratio itself when it lies in the range, the nearer end of the range
\* otherwise, and never a value outside the range, whatever the distances.
C6_MultiplierClampedToRange ==
    (lastCall.op = "updateSpeedForConstantPixelRate" /\ isAnimating) =>
        LET a == lastCall.speed
            ratio == Div(a.currentAltitude, a.baseAltitude)
            m == cesiumClock.multiplier
        IN /\ Le(a.minSpeed, m)
           /\ Le(m, a.maxSpeed)
           /\ Lt(ratio, a.minSpeed) => m = a.minSpeed
           /\ Gt(ratio, a.maxSpeed) => m = a.maxSpeed
           /\ (Le(a.minSpeed, ratio) /\ Le(ratio, a.maxSpeed)) => m = ratio

C10_UnparsableTimestampFails ==
    (/\ lastCall.op = "calculateGlobalTimeline"
     /\ \E k \in HasSamples(lastCall.flights) :
            IsNaN(FirstTime(lastCall.flights[k]))
               \/ IsNaN(LastTime(lastCall.flights[k])))
        => lastCall.result # "ok" /\ globalTimeline = NullTimeline

\* C11: every trajectory drawn for a single-instant batch (latestEnd equal
\* to earliestStart) has offset fractions 0, so its compressedStart and
\* compressedEnd are both the animationStart.
C11_SingleInstantMapsToStart ==
    \A e \in entities :
        Eq(e.params.latestEnd, e.params.earliestStart)
            => /\ Eq(e.start, e.params.animationStart)
               /\ Eq(e.end, e.params.animationStart)

\* C12: for every sample i of a drawn trajectory, the position at the
\* sample's own compressed time compressedStart + ((t_i - rs) / (re - rs)) *
\* (compressedEnd - compressedStart) is that sample's longitude, latitude
\* and altitude times 0.3048; the first sample sits at compressedStart and
\* the last at compressedEnd.
C12_ExactAtKnots ==
    \A e \in entities :
        /\ Eq(e.times[1], e.start)
        /\ Eq(e.times[Len(e.times)], e.end)
        /\ \A i \in 1..Len(e.times) :
               LET rs == SampleTime(e, 1)
                   re == SampleTime(e, Len(e.times))
                   knot == AddSeconds(e.start,
                               Mul(Div(Sub(SampleTime(e, i), rs), Sub(re, rs)),
                                   Sub(e.end, e.start)))
                   track == TracksOf(e)[i]
               IN PositionAt(e, knot) =
                      [lon |-> Num(track.lon), lat |-> Num(track.lat),
                       height |-> Rat(track.alt * 3048, 10000)]

\* C13: a drawn trajectory is eligible for display exactly at the compressed
\* times in [compressedStart, animationStart + animationDuration]: at no
\* time before its compressedStart, and at every time from its
\* compressedEnd to the session's animation end.
C13_VisibleFromStartToSessionEnd ==
    \A e \in entities :
        LET animationEnd ==
                AddSeconds(e.params.animationStart, e.params.animationDuration)
            probes == {e.params.animationStart, e.start, e.end, animationEnd,
                       cesiumClock.currentTime}
                          \cup {e.times[i] : i \in 1..Len(e.times)}
        IN \A t \in probes :
               /\ Lt(t, e.start) => ~Available(e, t)
               /\ (Le(e.end, t) /\ Le(t, animationEnd)) => Available(e, t)
               /\ Available(e, t) <=> (Le(e.start, t) /\ Le(t, animationEnd))

\* C14: drawFlightPath skips a trajectory with fewer than 2 samples: it
\* returns null without an error and creates no entity; the other
\* trajectories of the batch are still drawn, each with its own entity, and
\* the page's startAnimation still succeeds.
C14_TooFewSamplesSkipped ==
    [][/\ (/\ lastCall'.op = "drawFlightPath"
           /\ Len(flights[lastCall'.flight].tracks) < 2)
             => /\ lastCall'.result \in
                       {"null: no tracks", "null: not enough positions"}
                /\ UNCHANGED <<entities, globalTimeline, isAnimating, cesiumClock>>
       /\ (/\ lastCall'.op = "drawFlightPath"
           /\ lastCall' # lastCall
           /\ Len(flights[lastCall'.flight].tracks) >= 2)
             => /\ lastCall'.result = "ok"
                /\ \E e \in entities' :
                       /\ e.flight = lastCall'.flight
                       /\ e \notin entities
                       /\ entities' = entities \cup {e}
       /\ lastCall'.op = "startAnimation"
             => lastCall'.result = "ok" /\ isAnimating']_vars
C14_Witness ==
    /\ lastCall.op = "drawFlightPath"
    /\ lastCall.result = "null: not enough positions"
    /\ Len(flights[lastCall.flight].tracks) = 1
    /\ \E e \in entities : e.flight > lastCall.flight

\* C15: reset succeeds from every reachable state and leaves the Timeline
\* not playing, without a stored timeline, the clock not animating and its
\* bounds cleared; a second reset right after it changes nothing of that.
C15_ResetSafeAndIdempotent ==
    [][/\ ENABLED Reset
       /\ lastCall'.op = "reset"
             => /\ lastCall'.result = "ok"
                /\ ~isAnimating'
                /\ globalTimeline' = NullTimeline
                /\ ~cesiumClock'.shouldAnimate
                /\ cesiumClock'.startTime = Undefined
                /\ cesiumClock'.stopTime = Undefined
       /\ (lastCall.op = "reset" /\ lastCall'.op = "reset")
             => UNCHANGED <<isAnimating, globalTimeline, cesiumClock>>]_vars
C15_Witness ==
    /\ lastCall.op = "reset"
    /\ lastCall.result = "ok"
    /\ cesiumClock.clockRange = "CLAMPED"
    /\ cesiumClock.multiplier # Num(1)
    /\ cesiumClock.startTime = Undefined
    /\ globalTimeline = NullTimeline

\* C16: while the animation is not running (never started, stopped or
\* reset) the rate update changes nothing: the clock's multiplier and every
\* other piece of state stay as they were, whatever the distances.
C16_RateUpdateNoOpWhenNotPlaying ==
    [][(lastCall'.op = "updateSpeedForConstantPixelRate" /\ ~isAnimating)
          => UNCHANGED <<loader, globe, flights, config, now, globalTimeline, isAnimating,
                         cesiumClock, entities, viewerBaseAltitude,
                         cameraAltitude, scheduled>>]_vars
C16_Witness ==
    /\ lastCall.op = "updateSpeedForConstantPixelRate"
    /\ ~isAnimating
    /\ cesiumClock.multiplier = Num(2)
    /\ ClampedMultiplier(lastCall.speed.currentAltitude, lastCall.speed.baseAltitude,
                         lastCall.speed.minSpeed, lastCall.speed.maxSpeed) = Num(1)

\* C17: the rate update changes only the clock's multiplier: the stored
\* timeline (span, animationStart, animationDuration), the clock's bounds,
\* current time, range and shouldAnimate, the playing flag and every drawn
\* trajectory's compressedStart and compressedEnd stay as they were.
C17_RateUpdateChangesOnlyMultiplier ==
    [][lastCall'.op = "updateSpeedForConstantPixelRate"
          => /\ UNCHANGED <<globalTimeline, isAnimating, entities>>
             /\ cesiumClock'.startTime = cesiumClock.startTime
             /\ cesiumClock'.stopTime = cesiumClock.stopTime
             /\ cesiumClock'.currentTime = cesiumClock.currentTime
             /\ cesiumClock'.clockRange = cesiumClock.clockRange
             /\ cesiumClock'.shouldAnimate = cesiumClock.shouldAnimate]_vars
C17_Witness ==
    /\ lastCall.op = "updateSpeedForConstantPixelRate"
    /\ isAnimating
    /\ cesiumClock.multiplier = Num(2)
    /\ \E e \in entities : Lt(e.start, e.end)

\* C18: while a session lasts (the animation was started and is neither
\* stopped nor reset) the stored animationStart and animationDuration do
\* not change and the clock's stopTime stays animationStart +
\* animationDuration, whatever else is called.
C18_SessionTimelineImmutable ==
    [][(isAnimating /\ isAnimating')
          => /\ globalTimeline'.animationStart = globalTimeline.animationStart
             /\ globalTimeline'.animationDuration = globalTimeline.animationDuration
             /\ cesiumClock'.stopTime =
                    AddSeconds(globalTimeline'.animationStart,
                               globalTimeline'.animationDuration)]_vars

\* C19: the viewer's base altitude is captured once, as the camera's
\* altitude when the altitude-based speed is enabled; from then on no step
\* (camera move, start, stop, reset, rate update, redraw) changes it, and
\* every rate update the camera listener makes is called with that value.
C19_BaseAltitudeCapturedOnce ==
    [][/\ (viewerBaseAltitude # Undefined => viewerBaseAltitude' = viewerBaseAltitude)
       /\ (lastCall'.op = "enableAltitudeBasedSpeed"
              => viewerBaseAltitude' = cameraAltitude)
       /\ (lastCall'.op = "updateSpeedForConstantPixelRate"
              => /\ viewerBaseAltitude # Undefined
                 /\ lastCall'.speed.baseAltitude = viewerBaseAltitude)]_vars
C19_Witness ==
    /\ lastCall.op = "updateSpeedForConstantPixelRate"
    /\ lastCall.speed.baseAltitude = viewerBaseAltitude
    /\ lastCall.speed.currentAltitude # viewerBaseAltitude
    /\ viewerBaseAltitude # Num(1)
    /\ cesiumClock.clockRange = "CLAMPED"
    /\ ~isAnimating

\* C20: after stopAnimation or reset nothing the program scheduled remains
\* scheduled: neither the Clock's 100 ms update interval nor the
\* camera.changed rate listener.
C20_NothingScheduledAfterStop ==
    lastCall.op \in {"stopAnimation", "reset"} => scheduled = {}

\* C21: calculateGlobalTimeline starts no clock: whether it succeeds or
\* throws, the playing flag and the clock's shouldAnimate, multiplier,
\* current time, range and start/stop bounds are what they were before.
C21_CalculateLeavesClockAlone ==
    [][lastCall'.op = "calculateGlobalTimeline"
          => UNCHANGED <<isAnimating, cesiumClock>>]_vars
C21_Witness ==
    /\ CalcOk
    /\ ~isAnimating
    /\ ~cesiumClock.shouldAnimate
    /\ cesiumClock.clockRange = "CLAMPED"
    /\ cesiumClock.multiplier = Num(2)
    /\ cesiumClock.currentTime # globalTimeline.animationStart

\* C22: after a successful loadData the loaded flights are in
\* chronological order of their first timestamps, getFlights(count) returns
\* the first min(count, loaded) of them in that order, and getFlights
\* without a successful loadData fails.  The order is required here only
\* between flights whose first timestamps are both instants.
C22_LoadedInChronologicalOrder ==
    /\ loader.isLoaded =>
           \A i, j \in 1..Len(loader.flightData) :
               (/\ i < j
                /\ loader.flightData[i].earliestTimestamp.iso
                /\ loader.flightData[j].earliestTimestamp.iso)
                   => loader.flightData[i].earliestTimestamp.ms
                          <= loader.flightData[j].earliestTimestamp.ms
    /\ lastCall.op = "getFlights" =>
           IF loader.isLoaded
           THEN /\ lastCall.result = "ok"
                /\ Len(lastCall.value) =
                       (IF lastCall.args[1] < Len(loader.flightData)
                        THEN lastCall.args[1] ELSE Len(loader.flightData))
                /\ \A k \in 1..Len(lastCall.value) :
                       /\ lastCall.value[k].data = loader.flightData[k].flightData
                       /\ lastCall.value[k].filePath = loader.flightData[k].filePath
           ELSE lastCall.result = "Data not loaded yet"

\* C23: calculateRealWorldTime(elapsed, timeline) returns earliestStart for
\* elapsed < 0, latestEnd for elapsed >= animationDuration, and otherwise
\* earliestStart + (elapsed / animationDuration) * (latestEnd -
\* earliestStart); the result lies in [earliestStart, latestEnd] and does
\* not decrease when the elapsed time grows.
C23_RealWorldTimeMapsProgress ==
    lastCall.op = "calculateRealWorldTime" =>
        LET elapsed == lastCall.args[1]
            tl == lastCall.args[2]
        IN /\ Lt(elapsed, Num(0)) => Eq(lastCall.value, tl.earliestStart)
           /\ Ge(elapsed, tl.animationDuration) => Eq(lastCall.value, tl.latestEnd)
           /\ (Ge(elapsed, Num(0)) /\ Lt(elapsed, tl.animationDuration))
                  => Eq(lastCall.value,
                        Add(tl.earliestStart,
                            Mul(Div(elapsed, tl.animationDuration),
                                Sub(tl.latestEnd, tl.earliestStart))))
           /\ Le(tl.earliestStart, lastCall.value)
           /\ Le(lastCall.value, tl.latestEnd)
           /\ \A later \in ElapsedValues :
                  Le(elapsed, later)
                      => Le(lastCall.value, CalculateRealWorldTime(later, tl))

\* C24: the clock's shouldAnimate, current time, start/stop bounds and
\* multiplier are written only by startAnimation, stopAnimation, reset, the
\* rate update and the tick: a step of any other operation (drawing,
\* clearing the entities, the Clock display, an altitude or camera call)
\* leaves the clock as it was.
C24_ClockWrittenOnlyByTimeline ==
    [][cesiumClock' # cesiumClock
          => lastCall'.op \in {"startAnimation", "stopAnimation", "reset",
                               "updateSpeedForConstantPixelRate", "tick"}]_vars

\* C25: waitForGlobe never rejects and always completes: it returns with
\* "Globe is ready" in the step that observes the tiles loaded after the
\* camera's moveEnd while the deadline has not fired, and with the logged
\* timeout in the step in which the deadline fires before that; it is
\* never left waiting once both signals were seen or the deadline fired.
C25_WaitForGlobeAlwaysCompletes ==
    /\ [](globe.promise # "rejected")
    /\ [](globe.pc \in {"awaitMove", "awaitTiles"}
             => /\ globe.deadline = "pending"
                /\ globe.promise = "pending"
                /\ ~(globe.sawMoveEnd /\ globe.sawTilesLoaded))
    /\ [][(globe'.log = "Globe is ready" /\ globe.log # "Globe is ready")
             => /\ globe.deadline = "pending"
                /\ globe'.deadline = "pending"
                /\ globe'.sawMoveEnd
                /\ globe'.sawTilesLoaded
                /\ globe'.promise = "fulfilled"]_vars
    /\ [][(globe'.deadline = "fired" /\ globe.pc \in {"awaitMove", "awaitTiles"})
             => /\ globe'.promise = "fulfilled"
                /\ globe'.log = "Error during readiness check, proceeding anyway"]_vars
    /\ ((globe.pc # "idle") ~> (globe.promise = "fulfilled"))
C25_Witness ==
    /\ globe.promise = "fulfilled"
    /\ globe.log = "Error during readiness check, proceeding anyway"
    /\ globe.deadline = "fired"
    /\ globe.sawMoveEnd
    /\ ~globe.sawTilesLoaded
    /\ globe.t = GlobeDeadlineMs

\* C26: whatever sequence of calculateGlobalTimeline, startAnimation,
\* stopAnimation, reset and rate-update calls is made, failing calls
\* included, the Timeline is never playing without a stored timeline.
C26_NeverPlayingWithoutTimeline ==
    ~(isAnimating /\ globalTimeline = NullTimeline)
C26_Witness ==
    /\ lastCall.op = "reset"
    /\ cesiumClock.clockRange = "CLAMPED"
    /\ cesiumClock.multiplier = Num(2)
    /\ ~isAnimating
    /\ globalTimeline = NullTimeline

C28_StartAfterStopRestarts ==
    [][/\ lastCall'.op = "stopAnimation"
              => /\ globalTimeline' = globalTimeline
                 /\ ~isAnimating'
       /\ (lastCall'.op = "startAnimation" /\ lastCall'.result = "ok")
              => /\ globalTimeline' = globalTimeline
                 /\ cesiumClock'.currentTime = globalTimeline.animationStart
                 /\ cesiumClock'.startTime = globalTimeline.animationStart
                 /\ cesiumClock'.stopTime =
                        AddSeconds(globalTimeline.animationStart,
                                   globalTimeline.animationDuration)
                 /\ cesiumClock'.multiplier = Num(1)
                 /\ cesiumClock'.shouldAnimate
                 /\ isAnimating']_vars
C28_Witness ==
    /\ lastCall.op = "stopAnimation"
    /\ globalTimeline # NullTimeline
    /\ cesiumClock.clockRange = "CLAMPED"
    /\ cesiumClock.multiplier = Num(2)
    /\ cesiumClock.currentTime # globalTimeline.animationStart
    /\ cesiumClock.startTime = globalTimeline.animationStart
    /\ ENABLED (StartAnimation /\ lastCall'.result = "ok")

\* C29: the Clock display inverts the placement of the samples: for every
\* sample of a drawn trajectory, calculateRealWorldTime applied to the
\* seconds between animationStart and the time drawFlightPath placed the
\* sample at returns the sample's real timestamp.
C29_ClockInvertsPlacement ==
    \A e \in entities :
        \A i \in 1..Len(e.times) :
            Eq(CalculateRealWorldTime(
                   SecondsDifference(e.times[i], e.params.animationStart),
                   e.params),
               SampleTime(e, i))

\* C30: loadData tolerates files that fail to load and does not tolerate a
\* loaded file without tracks: when some file loaded with a missing or
\* empty track list the call fails, isLoaded stays false and the flight
\* list stays empty; otherwise the call succeeds, isLoaded is true and the
\* flight list holds exactly the files that loaded, the failed ones dropped.
C30_LoadToleratesFailedFilesOnly ==
    [][lastCall'.op = "loadData"
          => LET files == loader.files
                 ok == {p \in 1..Len(files) : files[p].fetch = "ok"}
             IN IF \E p \in ok : Len(files[p].flight.tracks) = 0
                THEN /\ lastCall'.result = "Flight tracks are missing or empty"
                     /\ ~loader'.isLoaded
                     /\ loader'.flightData = <<>>
                ELSE /\ lastCall'.result = "ok"
                     /\ loader'.isLoaded
                     /\ Len(loader'.flightData) = Cardinality(ok)
                     /\ {loader'.flightData[k].filePath :
                            k \in 1..Len(loader'.flightData)} = ok
                     /\ \A k \in 1..Len(loader'.flightData) :
                            loader'.flightData[k].flightData =
                                JsonArray(files[loader'.flightData[k].filePath].flight)]_vars
C30_Witness ==
    /\ lastCall.op = "loadData"
    /\ lastCall.result = "ok"
    /\ loader.isLoaded
    /\ Len(loader.flightData) = 2
    /\ Len(loader.files) = 3
    /\ \E p \in 1..Len(loader.files) : loader.files[p].fetch \in FetchFailures

====
